---- MODULE Spec2Model ----
(***************************************************************************)
(* A model of cream's Cache<K, V> (src/src/lib.rs): the BTreeMap store     *)
(* `data`, the insertion ledger `insert_order`, the configuration          *)
(* (`max_keys`, `ttl`), the TTL sweeper threads spawned by with_ttl and    *)
(* the Drop implementation.  Every public method is modelled step by step, *)
(* one step per lock acquisition, so that interleavings of caller threads  *)
(* and sweepers are those the locks allow.                                 *)
(***************************************************************************)
EXTENDS Integers, Sequences, FiniteSets, TLC

(* ------------------------------ bounds --------------------------------- *)
\* number of distinct keys callers use (keys are 1..NumKeys, ordered as Ord)
NumKeys == 3
\* number of distinct values callers store
NumVals == 2
\* number of caller threads sharing the cache
NumThreads == 2
\* number of with_ttl calls a builder chain may make (each spawns a sweeper)
MaxSweepers == 2
\* the monotonic clock runs from 0 to MaxTime
MaxTime == 2
\* with concurrent callers, a put is started only while the ledger holds
\* fewer than MaxOrder keys
MaxOrder == 2

Keys == 1..NumKeys
Vals == 1..NumVals
Threads == 1..NumThreads
Sweepers == (NumThreads + 1)..(NumThreads + MaxSweepers)
\* sizes handed to with_max_size, durations handed to with_ttl
Sizes == 1..(NumKeys - 1)
Durations == 1..MaxTime
\* the keys the callers of a concurrent specification use
SharedKeys == 1..(NumKeys - 1)
\* the keys and the values the callers use where several threads write
RaceKeys == 1..(NumKeys - 2)
RaceVals == 1..(NumVals - 1)
\* every size with_max_size accepts within the bounds: usize starts at zero
AnySizes == 0..(NumKeys - 1)
\* a single caller starts a put only while the ledger holds fewer than
\* SeqOrder keys
SeqOrder == NumKeys + 1

(* Option<T>: None is the empty sequence, Some(x) the one-element sequence *)
None == <<>>
Some(x) == <<x>>
IsSome(o) == o # None
Unwrap(o) == o[1]

\* lock holder ids: 0 is "nobody", threads and sweepers hold their own id
Nobody == 0

VARIABLES
  data,            \* BTreeMap<K, (V, Instant)>: [Keys -> Option([v, inst])]
  insert_order,    \* VecDeque<K>
  max_keys,        \* Option<usize>
  ttl,             \* Option<Duration>
  stop,            \* the stop flag
  cleanup_thread,  \* Option<JoinHandle>: the sweeper whose handle is kept
  now,             \* the monotonic clock read by Instant::now / elapsed
  phase,           \* "building", "shared", "dropping", "dropped"
  data_w,          \* holder of the write lock of `data`
  data_r,          \* holders of the read lock of `data`
  order_w,         \* holder of the write lock of `insert_order`
  max_lock,        \* holder of the `max_keys` mutex
  th,              \* per caller thread: position and locals
  sw,              \* per sweeper thread: position, captured ttl, cursor
  hist             \* history: the keys of the put calls, in call order, while
                   \*   they are pairwise distinct and nothing was removed; with
                   \*   concurrent puts, the key of the latest put while no
                   \*   other call has overlapped it

vars == <<data, insert_order, max_keys, ttl, stop, cleanup_thread, now, phase,
          data_w, data_r, order_w, max_lock, th, sw, hist>>

locks == <<data_w, data_r, order_w, max_lock>>
config == <<max_keys, ttl, cleanup_thread>>

(* ------------------------------ helpers -------------------------------- *)
Entry(v, inst) == [v |-> v, inst |-> inst]

\* the keys physically in the store
Present(d) == {k \in Keys : IsSome(d[k])}

\* BTreeMap::len
Len_data(d) == Cardinality(Present(d))

\* mutant of Live: an entry whose age equals the ttl still counts as live
Live_Inclusive(inst, d, t) == t - inst <= d
\* inst.elapsed() < ttl, evaluated at clock value t
Live(inst, d, t) == t - inst < d

\* the read lock of `data` can be taken: no writer holds it
CanRead == data_w = Nobody
\* the write lock of `data` can be taken: no writer and no reader holds it
CanWrite == data_w = Nobody /\ data_r = {}
\* the write lock of `insert_order` can be taken
CanWriteOrder == order_w = Nobody

\* VecDeque::retain(|k| keep(k)) on a sequence
RECURSIVE Retain(_, _)
Retain(s, keep) ==
  IF s = <<>> THEN <<>>
  ELSE IF Head(s) \in keep THEN <<Head(s)>> \o Retain(Tail(s), keep)
       ELSE Retain(Tail(s), keep)

\* the smallest key >= i that is in the store, 0 when there is none:
\* the next entry a BTreeMap iterator yields
NextKey(d, i) ==
  IF \E k \in Present(d) : k >= i
    THEN CHOOSE k \in Present(d) : k >= i /\ \A j \in Present(d) : j >= i => k <= j
    ELSE 0

IdleThread == [pc |-> "idle", key |-> 0, val |-> 0, ret |-> None,
               oldest |-> None, cur |-> 0, pre |-> None, at |-> 0]
UnbornSweeper == [pc |-> "unborn", ttl |-> 0, cur |-> 0]

Init ==
  /\ data = [k \in Keys |-> None]
  /\ insert_order = <<>>
  /\ max_keys = None
  /\ ttl = None
  /\ stop = FALSE
  /\ cleanup_thread = None
  /\ now = 0
  /\ phase = "building"
  /\ data_w = Nobody
  /\ data_r = {}
  /\ order_w = Nobody
  /\ max_lock = Nobody
  /\ th = [t \in Threads |-> IdleThread]
  /\ sw = [s \in Sweepers |-> UnbornSweeper]
  /\ hist = <<>>

(* ------------------------------ the clock ------------------------------ *)
Tick ==
  /\ now < MaxTime
  /\ now' = now + 1
  /\ UNCHANGED <<data, insert_order, config, stop, phase, locks, th, sw,
                 hist>>

(* ------------------------------ builders ------------------------------- *)
\* with_max_size(self, size): consumes the cache, so no other thread uses it
WithMaxSize(size) ==
  /\ phase = "building"
  /\ max_keys' = Some(size)
  /\ UNCHANGED <<data, insert_order, ttl, cleanup_thread, stop, now, phase,
                 locks, th, sw, hist>>

\* with_ttl(self, ttl): stores the ttl and spawns a sweeper that captures it;
\* Option::replace drops the handle of an earlier sweeper, which keeps running
WithTtl(d) ==
  /\ phase = "building"
  /\ \E s \in Sweepers :
       /\ sw[s].pc = "unborn"
       /\ \A o \in Sweepers : o < s => sw[o].pc # "unborn"
       /\ sw' = [sw EXCEPT ![s] = [pc |-> "check", ttl |-> d, cur |-> 0]]
       /\ cleanup_thread' = Some(s)
  /\ ttl' = Some(d)
  /\ UNCHANGED <<data, insert_order, max_keys, stop, now, phase, locks, th,
                 hist>>

(* --------------------------- caller threads ---------------------------- *)
\* a method call starts: the cache is alive, the thread is between calls
CanCall(t) ==
  /\ phase \in {"building", "shared"}
  /\ th[t].pc = "idle"

\* history kept in the locals: `pre` is what a writing call remembers of the
\* store as the call began, `at` the clock value when remove deleted the entry
Begin(t, k, v, pc, pre) ==
  /\ CanCall(t)
  /\ th' = [th EXCEPT ![t] = [pc |-> pc, key |-> k, val |-> v, ret |-> None,
                              oldest |-> None, cur |-> 1, pre |-> pre,
                              at |-> 0]]
  /\ phase' = "shared"
  /\ UNCHANGED <<data, insert_order, config, stop, now, locks, sw>>

Goto(t, pc) == th' = [th EXCEPT ![t].pc = pc]
\* the call returns: its locals are gone
Return(t) == th' = [th EXCEPT ![t] = IdleThread]

\* BTreeMap::insert(..).map(|(v, _)| v), BTreeMap::remove(..).map(|(v, _)| v):
\* the value the store held for the key, if any
Previous(d, k) == IF IsSome(d[k]) THEN Some(Unwrap(d[k]).v) ELSE None

(* put, lib.rs 92-114; `pre` is the value stored for the key at the call *)
PutStart(t, k, v) ==
  /\ Begin(t, k, v, "put_max", Previous(data, k))

\* line 93: lock the max_keys mutex; with no bound the if-let fails and the
\* guard is dropped; with a bound the guard lives to the end of the then-block
PutMax(t) ==
  /\ th[t].pc = "put_max"
  /\ max_lock = Nobody
  /\ IF IsSome(max_keys)
       THEN max_lock' = t /\ Goto(t, "put_len")
       ELSE max_lock' = max_lock /\ Goto(t, "put_ins")
  /\ UNCHANGED <<data, insert_order, config, stop, now, phase, data_w, data_r,
                 order_w, sw, hist>>

\* line 94: self.data.read().unwrap().len() >= max
AtCapacity(d, max) == Len_data(d) >= max

PutLen(t) ==
  /\ th[t].pc = "put_len"
  /\ CanRead
  /\ IF AtCapacity(data, Unwrap(max_keys))
       THEN max_lock' = max_lock /\ Goto(t, "put_pop")
       ELSE max_lock' = Nobody /\ Goto(t, "put_ins")
  /\ UNCHANGED <<data, insert_order, config, stop, now, phase, data_w, data_r,
                 order_w, sw, hist>>

\* mutant of Victim: the most recently inserted key is evicted
Victim_Newest(order) == IF order = <<>> THEN None ELSE Some(order[Len(order)])
\* line 100: the victim is the front of the ledger
Victim(order) == IF order = <<>> THEN None ELSE Some(Head(order))
PopFront(order) == IF order = <<>> THEN <<>> ELSE Tail(order)

PutPop(t) ==
  /\ th[t].pc = "put_pop"
  /\ CanWriteOrder
  /\ insert_order' = PopFront(insert_order)
  /\ th' = [th EXCEPT ![t].oldest = Victim(insert_order), ![t].pc = "put_evict"]
  /\ UNCHANGED <<data, config, stop, now, phase, locks, sw, hist>>

\* mutant of PutEvict: a put that finds nothing to evict gives up and returns
PutEvict_GivesUp(t) ==
  /\ th[t].pc = "put_evict"
  /\ IF IsSome(th[t].oldest) /\ IsSome(data[Unwrap(th[t].oldest)])
       THEN /\ CanWrite
            /\ data' = [data EXCEPT ![Unwrap(th[t].oldest)] = None]
            /\ Goto(t, "put_ins")
       ELSE /\ UNCHANGED data
            /\ Return(t)
  /\ max_lock' = Nobody
  /\ UNCHANGED <<insert_order, config, stop, now, phase, data_w, data_r,
                 order_w, sw, hist>>
\* lines 101-105: remove the victim from the store, then leave the if-let
PutEvict(t) ==
  /\ th[t].pc = "put_evict"
  /\ IF IsSome(th[t].oldest)
       THEN /\ CanWrite
            /\ data' = [data EXCEPT ![Unwrap(th[t].oldest)] = None]
       ELSE UNCHANGED data
  /\ max_lock' = Nobody
  /\ Goto(t, "put_ins")
  /\ UNCHANGED <<insert_order, config, stop, now, phase, data_w, data_r,
                 order_w, sw, hist>>

\* lines 106-111: insert under the write lock, stamped with Instant::now()
PutInsert(t) ==
  /\ th[t].pc = "put_ins"
  /\ CanWrite
  /\ data' = [data EXCEPT ![th[t].key] = Some(Entry(th[t].val, now))]
  /\ th' = [th EXCEPT ![t].ret = Previous(data, th[t].key), ![t].pc = "put_push"]
  /\ UNCHANGED <<insert_order, config, stop, now, phase, locks, sw, hist>>

\* line 112: push the key at the back of the ledger, line 113: return
PushBack(order, k) == Append(order, k)

PutPush(t) ==
  /\ th[t].pc = "put_push"
  /\ CanWriteOrder
  /\ insert_order' = PushBack(insert_order, th[t].key)
  /\ Return(t)
  /\ UNCHANGED <<data, config, stop, now, phase, locks, sw, hist>>

Put(t) ==
  \/ PutMax(t)
  \/ PutLen(t)
  \/ PutPop(t)
  \/ PutEvict(t)
  \/ PutInsert(t)
  \/ PutPush(t)

\* the filter_map closure of lines 143-153 and 166-176: is the entry kept
Kept(e, tt, t) == IF IsSome(tt) THEN Live(e.inst, Unwrap(tt), t) ELSE TRUE

(* get, lib.rs 118-133 *)
GetStart(t, k) == Begin(t, k, 0, "get_lock", None) /\ UNCHANGED hist

\* line 119: the read guard `c` is held until the function returns
ReadLock(t, from, to) ==
  /\ th[t].pc = from
  /\ CanRead
  /\ data_r' = data_r \cup {t}
  /\ Goto(t, to)
  /\ UNCHANGED <<data, insert_order, config, stop, now, phase, data_w, order_w,
                 max_lock, sw, hist>>

\* lines 120-132: what get returns for key k at clock value t
GetResult(d, tt, k, t) ==
  IF IsSome(d[k])
    THEN IF IsSome(tt)
           THEN IF Live(Unwrap(d[k]).inst, Unwrap(tt), t)
                  THEN Some(Unwrap(d[k]).v)
                  ELSE None
           ELSE Some(Unwrap(d[k]).v)
    ELSE None

\* mutant of ReadEval: a read that finds its key expired deletes the entry
ReadEval_Purging(t, from, to, r) ==
  /\ th[t].pc = from
  /\ t \in data_r
  /\ th' = [th EXCEPT ![t].ret = r, ![t].pc = to]
  /\ data' = IF IsSome(data[th[t].key]) /\ ~Kept(Unwrap(data[th[t].key]), ttl, now)
               THEN [data EXCEPT ![th[t].key] = None]
               ELSE data
  /\ UNCHANGED <<insert_order, config, stop, now, phase, locks, sw, hist>>
\* the body of a read computes the result r under the read lock
ReadEval(t, from, to, r) ==
  /\ th[t].pc = from
  /\ t \in data_r
  /\ th' = [th EXCEPT ![t].ret = r, ![t].pc = to]
  /\ UNCHANGED <<data, insert_order, config, stop, now, phase, locks, sw,
                 hist>>

\* the read guard is dropped and the read returns
ReadReturn(t, from) ==
  /\ th[t].pc = from
  /\ t \in data_r
  /\ data_r' = data_r \ {t}
  /\ Return(t)
  /\ UNCHANGED <<data, insert_order, config, stop, now, phase, data_w, order_w,
                 max_lock, sw, hist>>

Get(t) ==
  \/ ReadLock(t, "get_lock", "get_eval")
  \/ ReadEval(t, "get_eval", "get_ret", GetResult(data, ttl, th[t].key, now))
  \/ ReadReturn(t, "get_ret")

(* exists, lib.rs 183-194 *)
ExistsStart(t, k) == Begin(t, k, 0, "exists_lock", None) /\ UNCHANGED hist

\* mutant of ExistsResult: presence alone decides, the ttl is not consulted
ExistsResult_NoTtl(d, tt, k, t) == IsSome(d[k])
\* lines 185-193: what exists returns for key k at clock value t
ExistsResult(d, tt, k, t) ==
  IF IsSome(tt)
    THEN IF IsSome(d[k])
           THEN Live(Unwrap(d[k]).inst, Unwrap(tt), t)
           ELSE FALSE
    ELSE IsSome(d[k])

Exists(t) ==
  \/ ReadLock(t, "exists_lock", "exists_eval")
  \/ ReadEval(t, "exists_eval", "exists_ret",
              ExistsResult(data, ttl, th[t].key, now))
  \/ ReadReturn(t, "exists_ret")

(* keys, lib.rs 137-156, and values, lib.rs 160-179 *)
KeysStart(t) == Begin(t, 0, 0, "keys_lock", None) /\ UNCHANGED hist
ValuesStart(t) == Begin(t, 0, 0, "values_lock", None) /\ UNCHANGED hist

\* what the closure yields for a kept entry: keys clones the key (line 146),
\* values clones the value (line 169)
Item(k, e, keys) == IF keys THEN k ELSE e.v

\* one entry of the iteration: the closure reads the clock for this entry
IterStep(t, at, keys) ==
  /\ th[t].pc = at
  /\ t \in data_r
  /\ NextKey(data, th[t].cur) # 0
  /\ LET k == NextKey(data, th[t].cur)
         e == Unwrap(data[k])
     IN th' = [th EXCEPT ![t].cur = k + 1,
                         ![t].ret = IF Kept(e, ttl, now)
                                      THEN Append(@, Item(k, e, keys))
                                      ELSE @]
  /\ UNCHANGED <<data, insert_order, config, stop, now, phase, locks, sw,
                 hist>>

\* the iterator is exhausted: collect() ends and the read guard is dropped
IterEnd(t, at) ==
  /\ NextKey(data, th[t].cur) = 0
  /\ ReadReturn(t, at)

KeysOp(t) ==
  \/ ReadLock(t, "keys_lock", "keys_iter")
  \/ IterStep(t, "keys_iter", TRUE)
  \/ IterEnd(t, "keys_iter")

ValuesOp(t) ==
  \/ ReadLock(t, "values_lock", "values_iter")
  \/ IterStep(t, "values_iter", FALSE)
  \/ IterEnd(t, "values_iter")

(* remove, lib.rs 198-214; `pre` is the entry stored for the key at the call *)
RemoveStart(t, k) == Begin(t, k, 0, "remove_data", data[k])

\* mutant of RemoveData: an expired entry is treated as absent, as get does
RemoveData_HonoursTtl(t) ==
  /\ th[t].pc = "remove_data"
  /\ CanWrite
  /\ IF IsSome(GetResult(data, ttl, th[t].key, now))
       THEN /\ data' = [data EXCEPT ![th[t].key] = None]
            /\ th' = [th EXCEPT ![t].ret = Previous(data, th[t].key),
                                ![t].at = now,
                                ![t].pc = "remove_order"]
       ELSE /\ UNCHANGED data
            /\ Return(t)
  /\ UNCHANGED <<insert_order, config, stop, now, phase, locks, sw, hist>>
\* line 199: remove from the store under the write lock, whatever the age;
\* lines 200-213: the ledger is only touched when a value was removed
RemoveData(t) ==
  /\ th[t].pc = "remove_data"
  /\ CanWrite
  /\ data' = [data EXCEPT ![th[t].key] = None]
  /\ IF IsSome(data[th[t].key])
       THEN th' = [th EXCEPT ![t].ret = Previous(data, th[t].key),
                             ![t].at = now,
                             ![t].pc = "remove_order"]
       ELSE Return(t)
  /\ UNCHANGED <<insert_order, config, stop, now, phase, locks, sw, hist>>

\* line 209: insert_guard.retain(|k| k != key)
RemoveOrder(t) ==
  /\ th[t].pc = "remove_order"
  /\ CanWriteOrder
  /\ insert_order' = Retain(insert_order, Keys \ {th[t].key})
  /\ Return(t)
  /\ UNCHANGED <<data, config, stop, now, phase, locks, sw, hist>>

Remove(t) ==
  \/ RemoveData(t)
  \/ RemoveOrder(t)

(* ------------------------ the sweeper, lib.rs 77-87 -------------------- *)
At(s, pc) == sw[s].pc = pc
Move(s, pc, cur) == sw' = [sw EXCEPT ![s].pc = pc, ![s].cur = cur]

\* mutant of StopSeen: the loop condition never sees the flag raised
StopSeen_Never == FALSE
\* line 78: *stop_flag.read().unwrap()
StopSeen == stop

\* line 78: the loop condition reads the stop flag
SweepCheck(s) ==
  /\ At(s, "check")
  /\ Move(s, IF StopSeen THEN "exited" ELSE "lock_data", 0)
  /\ UNCHANGED <<data, insert_order, config, stop, now, phase, locks, th,
                 hist>>

\* line 79: data.write()
SweepLockData(s) ==
  /\ At(s, "lock_data")
  /\ CanWrite
  /\ data_w' = s
  /\ Move(s, "retain", 1)
  /\ UNCHANGED <<data, insert_order, config, stop, now, phase, data_r, order_w,
                 max_lock, th, hist>>

\* line 80: the retain closure, inst.elapsed() < ttl with the captured ttl
SweepKeeps(e, d, t) == Live(e.inst, d, t)

\* line 80: one entry of data_guard.retain
SweepRetain(s) ==
  /\ At(s, "retain")
  /\ data_w = s
  /\ NextKey(data, sw[s].cur) # 0
  /\ LET k == NextKey(data, sw[s].cur)
     IN /\ data' = IF SweepKeeps(Unwrap(data[k]), sw[s].ttl, now)
                     THEN data ELSE [data EXCEPT ![k] = None]
        /\ Move(s, "retain", k + 1)
  /\ UNCHANGED <<insert_order, config, stop, now, phase, locks, th,
                 hist>>

\* mutant of SweepUnlockData: the explicit drop is missing, so the write guard
\* of `data` lives on into the ledger pass
SweepUnlockData_KeepsGuard(s) ==
  /\ At(s, "retain")
  /\ data_w = s
  /\ NextKey(data, sw[s].cur) = 0
  /\ Move(s, "lock_order", 0)
  /\ UNCHANGED <<data, insert_order, config, stop, now, phase, locks, th,
                 hist>>
\* mutant of SweepUnlockData: the cycle ends after the delete pass and never
\* reconciles the ledger
SweepUnlockData_SkipsLedger(s) ==
  /\ At(s, "retain")
  /\ data_w = s
  /\ NextKey(data, sw[s].cur) = 0
  /\ data_w' = Nobody
  /\ Move(s, "sleep", 0)
  /\ UNCHANGED <<data, insert_order, config, stop, now, phase, data_r, order_w,
                 max_lock, th, hist>>
\* line 81: drop(data_guard)
SweepUnlockData(s) ==
  /\ At(s, "retain")
  /\ data_w = s
  /\ NextKey(data, sw[s].cur) = 0
  /\ data_w' = Nobody
  /\ Move(s, "lock_order", 0)
  /\ UNCHANGED <<data, insert_order, config, stop, now, phase, data_r, order_w,
                 max_lock, th, hist>>

\* line 82: insert_order.write()
SweepLockOrder(s) ==
  /\ At(s, "lock_order")
  /\ CanWriteOrder
  /\ order_w' = s
  /\ Move(s, "reconcile", 1)
  /\ UNCHANGED <<data, insert_order, config, stop, now, phase, data_w, data_r,
                 max_lock, th, hist>>

\* the sequence without its i-th element
DropAt(order, i) == SubSeq(order, 1, i - 1) \o SubSeq(order, i + 1, Len(order))

\* line 83: one element of insert_guard.retain; the closure takes the read
\* lock of `data` while the ledger's write lock is held
SweepReconcile(s) ==
  /\ At(s, "reconcile")
  /\ order_w = s
  /\ sw[s].cur <= Len(insert_order)
  /\ CanRead
  /\ IF IsSome(data[insert_order[sw[s].cur]])
       THEN /\ Move(s, "reconcile", sw[s].cur + 1)
            /\ UNCHANGED insert_order
       ELSE /\ insert_order' = DropAt(insert_order, sw[s].cur)
            /\ UNCHANGED sw
  /\ UNCHANGED <<data, config, stop, now, phase, locks, th, hist>>

\* line 84: drop(insert_guard)
SweepUnlockOrder(s) ==
  /\ At(s, "reconcile")
  /\ order_w = s
  /\ sw[s].cur > Len(insert_order)
  /\ order_w' = Nobody
  /\ Move(s, "sleep", 0)
  /\ UNCHANGED <<data, insert_order, config, stop, now, phase, data_w, data_r,
                 max_lock, th, hist>>

\* mutant of SweepSleep: the loop goes round without testing the stop flag
SweepSleep_NoCheck(s) ==
  /\ At(s, "sleep")
  /\ Move(s, "lock_data", 0)
  /\ UNCHANGED <<data, insert_order, config, stop, now, phase, locks, th,
                 hist>>
\* line 85: thread::sleep(50 ms), then back to the loop condition
SweepSleep(s) ==
  /\ At(s, "sleep")
  /\ Move(s, "check", 0)
  /\ UNCHANGED <<data, insert_order, config, stop, now, phase, locks, th,
                 hist>>

Sweep(s) ==
  \/ SweepCheck(s)
  \/ SweepLockData(s)
  \/ SweepRetain(s)
  \/ SweepUnlockData(s)
  \/ SweepLockOrder(s)
  \/ SweepReconcile(s)
  \/ SweepUnlockOrder(s)
  \/ SweepSleep(s)

(* ----------------------------- Drop, lib.rs 21-30 ----------------------- *)
\* drop(&mut self) runs when the last owner lets go: no call is in progress
Quiescent == \A t \in Threads : th[t].pc = "idle"

\* line 22: raise the stop flag
DropStop ==
  /\ phase \in {"building", "shared"}
  /\ Quiescent
  /\ stop' = TRUE
  /\ phase' = "dropping"
  /\ UNCHANGED <<data, insert_order, config, now, locks, th, sw,
                 hist>>

\* the handle drop() joins: the one cleanup_thread holds
Joined == cleanup_thread

\* lines 23-29: take the handle, if any, and join it
DropJoin ==
  /\ phase = "dropping"
  /\ IsSome(Joined) => sw[Unwrap(Joined)].pc = "exited"
  /\ cleanup_thread' = None
  /\ phase' = "dropped"
  /\ UNCHANGED <<data, insert_order, max_keys, ttl, stop, now, locks, th, sw,
                 hist>>

(* --------------------------- specifications ---------------------------- *)
\* the history of a run that no longer is a run of puts of distinct keys
Tainted == <<0>>
\* the history after put(k, _)
Record(h, k) ==
  IF h = Tainted \/ \E i \in 1..Len(h) : h[i] = k THEN Tainted ELSE Append(h, k)

\* the calls a thread starts, on keys of K; a put only while the ledger
\* holds fewer than `room` keys; with the history kept (h) or not
CallPut(t, K, room, h) == \E k \in K, v \in Vals :
  /\ Len(insert_order) < room
  /\ PutStart(t, k, v)
  /\ hist' = IF h THEN Record(hist, k) ELSE hist
CallRemove(t, K, h) == \E k \in K :
  RemoveStart(t, k) /\ hist' = IF h THEN Tainted ELSE hist
CallGet(t, K) == \E k \in K : GetStart(t, k)
CallExists(t, K) == \E k \in K : ExistsStart(t, k)

Step(t) ==
  \/ Put(t)
  \/ Get(t)
  \/ Exists(t)
  \/ KeysOp(t)
  \/ ValuesOp(t)
  \/ Remove(t)

\* the thread that writes in every specification, and the only caller of a
\* single-threaded one
Main == CHOOSE t \in Threads : \A u \in Threads : t <= u
\* the threads that only read in a specification with concurrent readers
Readers == Threads \ {Main}

\* with_ttl, called once in the builder chain
WithTtlOnce(d) == cleanup_thread = None /\ WithTtl(d)

\* a writer thread, reader threads and the sweeper of a cache built with at
\* most one with_max_size and one with_ttl call, interleaved
Next ==
  \/ Tick
  \/ \E size \in Sizes : WithMaxSize(size)
  \/ \E d \in Durations : WithTtlOnce(d)
  \/ CallPut(Main, SharedKeys, MaxOrder, FALSE)
  \/ CallRemove(Main, SharedKeys, FALSE)
  \/ \E t \in Readers : CallGet(t, SharedKeys)
  \/ \E t \in Readers : CallExists(t, SharedKeys)
  \/ \E t \in Readers : KeysStart(t)
  \/ \E t \in Readers : ValuesStart(t)
  \/ \E t \in Threads : Step(t)
  \/ \E s \in Sweepers : Sweep(s)

Spec == Init /\ [][Next]_vars

\* a single caller thread on a cache without TTL
NextSeq ==
  \/ \E size \in Sizes : WithMaxSize(size)
  \/ CallPut(Main, Keys, SeqOrder, TRUE)
  \/ CallRemove(Main, Keys, TRUE)
  \/ CallGet(Main, Keys)
  \/ CallExists(Main, Keys)
  \/ KeysStart(Main)
  \/ ValuesStart(Main)
  \/ Step(Main)

SpecSeq == Init /\ [][NextSeq]_vars

\* a single caller thread on a cache without TTL whose max_size may be zero
NextAnySize ==
  \/ \E size \in AnySizes : WithMaxSize(size)
  \/ CallPut(Main, Keys, SeqOrder, TRUE)
  \/ CallRemove(Main, Keys, TRUE)
  \/ CallGet(Main, Keys)
  \/ CallExists(Main, Keys)
  \/ KeysStart(Main)
  \/ ValuesStart(Main)
  \/ Step(Main)

SpecAnySize == Init /\ [][NextAnySize]_vars

\* the life of a cache: any chain of builder calls, a thread that puts, the
\* sweepers, and the owner dropping the cache; every sweeper thread and the
\* join of drop() keep being scheduled
NextLife ==
  \/ Tick
  \/ \E size \in Sizes : WithMaxSize(size)
  \/ \E d \in Durations : WithTtl(d)
  \/ CallPut(Main, SharedKeys, MaxOrder, FALSE)
  \/ Put(Main)
  \/ \E s \in Sweepers : Sweep(s)
  \/ DropStop
  \/ DropJoin

Fairness ==
  /\ \A s \in Sweepers : WF_vars(Sweep(s))
  /\ WF_vars(DropJoin)

SpecLife == Init /\ [][NextLife]_vars /\ Fairness

\* a put started by any thread, on the keys and values of a race
RacePut(t) == \E k \in RaceKeys, v \in RaceVals :
  /\ Len(insert_order) < MaxOrder
  /\ PutStart(t, k, v)
  /\ UNCHANGED hist

\* every thread writes: concurrent put and remove calls and the sweeper of a
\* cache built with at most one with_max_size and one with_ttl call
NextWriters ==
  \/ Tick
  \/ \E size \in Sizes : WithMaxSize(size)
  \/ \E d \in Durations : WithTtlOnce(d)
  \/ \E t \in Threads : RacePut(t)
  \/ \E t \in Threads : CallRemove(t, RaceKeys, FALSE)
  \/ \E t \in Threads : Put(t)
  \/ \E t \in Threads : Remove(t)
  \/ \E s \in Sweepers : Sweep(s)

\* a thread that waits for a lock gets it if the lock keeps becoming free;
\* the sweeper sleeps 50 ms in every cycle, a caller is idle between calls
FairWriters ==
  /\ \A t \in Threads : SF_vars(Put(t) \/ Remove(t))
  /\ \A s \in Sweepers : SF_vars(Sweep(s))

SpecWriters == Init /\ [][NextWriters]_vars /\ FairWriters

\* every thread calls every method, concurrently with the others and the
\* sweeper; the clock stands still, so which locks are asked for and in which
\* order is explored without the ages of the entries
NextRace ==
  \/ \E size \in Sizes : WithMaxSize(size)
  \/ \E d \in Durations : WithTtlOnce(d)
  \/ \E t \in Threads : RacePut(t)
  \/ \E t \in Threads : CallRemove(t, RaceKeys, FALSE)
  \/ \E t \in Threads : CallGet(t, RaceKeys)
  \/ \E t \in Threads : CallExists(t, RaceKeys)
  \/ \E t \in Threads : KeysStart(t)
  \/ \E t \in Threads : ValuesStart(t)
  \/ \E t \in Threads : Step(t)
  \/ \E s \in Sweepers : Sweep(s)

FairRace ==
  /\ \A t \in Threads : SF_vars(Step(t))
  /\ \A s \in Sweepers : SF_vars(Sweep(s))

SpecRace == Init /\ [][NextRace]_vars /\ FairRace

\* the history after a put(k, _) starts among concurrent puts: the put runs
\* alone when no call is in progress, and until another call starts
Alone(k) == IF Quiescent THEN <<k>> ELSE Tainted

\* every thread puts, concurrently with the others, on a cache without TTL
ConcurrentPut(t) == \E k \in SharedKeys, v \in Vals :
  /\ Len(insert_order) < SeqOrder
  /\ PutStart(t, k, v)
  /\ hist' = Alone(k)

NextPuts ==
  \/ \E size \in Sizes : WithMaxSize(size)
  \/ \E t \in Threads : ConcurrentPut(t)
  \/ \E t \in Threads : Put(t)

SpecPuts == Init /\ [][NextPuts]_vars

(* ------------------------------- claims -------------------------------- *)
\* the keys of a sequence
Range(q) == {q[i] : i \in 1..Len(q)}
Min(a, b) == IF a < b THEN a ELSE b
SeqIdle == th[Main].pc = "idle"

\* C1: with max_size = m, a single caller and puts over any keys, the store
\* holds at most m entries whenever a put has returned.
CapacityBound ==
  (IsSome(max_keys) /\ SeqIdle) => Len_data(data) <= Unwrap(max_keys)

\* C3: put(k, v2) returns Some(v1) when the store held v1 for k as the call
\* began, and None when k was absent, for a single caller.
PutReturnsPrevious ==
  \A t \in Threads : th[t].pc = "put_push" => th[t].ret = th[t].pre

\* C4: with max_size = m and no TTL, after a single caller has put n pairwise
\* distinct keys (reads interleaved, nothing removed), the store holds exactly
\* the last min(n, m) keys put, and the ledger lists them in put order.
LastPut(h, n) == SubSeq(h, Len(h) - n + 1, Len(h))
FifoEviction ==
  (IsSome(max_keys) /\ ttl = None /\ hist # Tainted /\ SeqIdle) =>
    LET kept == LastPut(hist, Min(Len(hist), Unwrap(max_keys)))
    IN Present(data) = Range(kept) /\ insert_order = kept

\* C4 witness: more distinct keys were put than the bound allows, so the
\* earliest were evicted.
FifoEvictionWitness ==
  /\ IsSome(max_keys)
  /\ hist # Tainted
  /\ SeqIdle
  /\ Len(hist) = NumKeys
  /\ Present(data) = Range(LastPut(hist, Unwrap(max_keys)))
  /\ hist[1] \notin Present(data)

\* C7: when remove(k) returns to a single caller, k is neither in the store
\* nor in the ledger, and no step of remove(k) touches another key's entry or
\* ledger occurrences.
RemoveReturns(t) ==
  /\ th[t].pc \in {"remove_data", "remove_order"}
  /\ th'[t].pc = "idle"
RemoveSteps(t) ==
  /\ th[t].pc \in {"remove_data", "remove_order"}
  /\ th'[t] # th[t]
RemoveClearsKey ==
  [][\A t \in Threads :
       /\ RemoveReturns(t) =>
            /\ data'[th[t].key] = None
            /\ th[t].key \notin Range(insert_order')
       /\ RemoveSteps(t) =>
            /\ \A j \in Keys \ {th[t].key} : data'[j] = data[j]
            /\ Retain(insert_order', Keys \ {th[t].key})
                 = Retain(insert_order, Keys \ {th[t].key})]_vars

\* C2: on a cache with a TTL d, no read reports an entry whose age at the
\* time of the read is >= d: get returns Some, exists returns true, and keys
\* and values list an entry, only for an entry that is in the store with
\* age < d, whatever the writer and the sweeper have done or not done.
Fresh(k) ==
  /\ IsSome(data[k])
  /\ IsSome(ttl) => now - Unwrap(data[k]).inst < Unwrap(ttl)
LazyTtlFilter ==
  [][\A t \in Threads :
       /\ (th[t].pc = "get_eval" /\ th'[t].pc = "get_ret" /\ IsSome(th'[t].ret))
            => Fresh(th[t].key)
       /\ (th[t].pc = "exists_eval" /\ th'[t].pc = "exists_ret" /\ th'[t].ret)
            => Fresh(th[t].key)
       /\ (th[t].pc \in {"keys_iter", "values_iter"}
             /\ Len(th'[t].ret) > Len(th[t].ret))
            => Fresh(NextKey(data, th[t].cur))]_vars

\* C2 witness: a get has returned None for an entry that is still in the
\* store, expired and not swept.
LazyTtlFilterWitness ==
  \E t \in Threads :
    /\ th[t].pc = "get_ret"
    /\ th[t].ret = None
    /\ IsSome(ttl)
    /\ IsSome(data[th[t].key])
    /\ now - Unwrap(data[th[t].key]).inst = Unwrap(ttl)

\* C6: remove(k) on a key that is in the store when remove takes the write
\* lock deletes it and returns its value whatever its age; remove returns
\* None only when the key is absent at that moment.
RemoveBypassesTtl ==
  [][\A t \in Threads :
       (th[t].pc = "remove_data" /\ th'[t].pc # "remove_data") =>
         /\ data'[th[t].key] = None
         /\ IsSome(data[th[t].key]) =>
              /\ th'[t].pc = "remove_order"
              /\ th'[t].ret = Some(Unwrap(data[th[t].key]).v)
         /\ th'[t].pc = "idle" => data[th[t].key] = None]_vars

\* C6 witness: remove has deleted an entry whose age was >= ttl and holds its
\* value to return.
RemoveBypassesTtlWitness ==
  \E t \in Threads :
    /\ th[t].pc = "remove_order"
    /\ IsSome(ttl)
    /\ IsSome(th[t].pre)
    /\ th[t].at - Unwrap(th[t].pre).inst >= Unwrap(ttl)
    /\ th[t].ret = Some(Unwrap(th[t].pre).v)

\* C10: in every reachable state and at every clock value, exists(k) is
\* get(k).is_some(); and a key for which exists is false stays one for which
\* get is None until a put stores it.
PutStores(k) ==
  \E t \in Threads :
    th[t].pc = "put_ins" /\ th[t].key = k /\ th'[t].pc = "put_push"
ExistsAgreesWithGet ==
  /\ [](\A k \in Keys :
          ExistsResult(data, ttl, k, now) = IsSome(GetResult(data, ttl, k, now)))
  /\ [][\A k \in Keys :
          (~ExistsResult(data, ttl, k, now) /\ ~PutStores(k))
            => GetResult(data', ttl', k, now') = None]_vars

\* C10 witness: exists has returned false for an entry that is in the store
\* and expired, where get returns None.
ExistsAgreesWithGetWitness ==
  \E t \in Threads :
    /\ th[t].pc = "exists_ret"
    /\ th[t].ret = FALSE
    /\ IsSome(data[th[t].key])
    /\ GetResult(data, ttl, th[t].key, now) = None

\* C5: on a cache with TTL d, an entry whose age is still < d stays in the
\* store, and so visible to every read, unless a caller overwrites, removes
\* or capacity-evicts it: no sweep deletes it before its age reaches d.
CallerWrites ==
  \E t \in Threads : PutEvict(t) \/ PutInsert(t) \/ RemoveData(t)
TtlBoundary ==
  [][\A k \in Keys :
       (IsSome(ttl) /\ IsSome(data[k]) /\ data'[k] # data[k]
          /\ now - Unwrap(data[k]).inst < Unwrap(ttl))
         => CallerWrites]_vars

\* C8: once drop() has raised the stop flag, every sweeper exits and the
\* join returns, wherever in its cycle a sweeper was; and until then the
\* dropping thread or some sweeper can always take a step.
AllExited == \A s \in Sweepers : sw[s].pc \in {"unborn", "exited"}
ShutdownTerminates ==
  /\ (phase = "dropping") ~> (phase = "dropped")
  /\ stop ~> AllExited
  /\ [](phase = "dropping" =>
          (ENABLED DropJoin \/ \E s \in Sweepers : ENABLED Sweep(s)))

\* C8 witness: the cache was dropped, and the flag was raised, while a
\* sweeper was in the middle of its delete pass.
ShutdownTerminatesWitness ==
  /\ phase = "dropping"
  /\ stop
  /\ \E s \in Sweepers : sw[s].pc = "retain" /\ data_w = s

\* C9: when drop() has returned, every sweeper this cache started has exited.
NoSweeperOutlivesCache == phase = "dropped" => AllExited

\* C11: no step of get, exists, keys or values, from the call to the return,
\* changes the store (keys, values, timestamps), the ledger, max_size, the
\* ttl or the stop flag, whether the key read is live, expired or absent.
ReadPcs == {"get_lock", "get_eval", "get_ret",
            "exists_lock", "exists_eval", "exists_ret",
            "keys_lock", "keys_iter", "values_lock", "values_iter"}
ReadSteps(t) ==
  /\ th'[t] # th[t]
  /\ th[t].pc \in ReadPcs \/ th'[t].pc \in ReadPcs
ReadsDoNotMutate ==
  [][(\E t \in Threads : ReadSteps(t)) =>
       UNCHANGED <<data, insert_order, max_keys, ttl, stop>>]_vars

\* C11 witness: a get has read an expired entry, which is still in the store,
\* and it is still the front of a ledger that holds another key behind it.
ReadsDoNotMutateWitness ==
  \E t \in Threads :
    /\ th[t].pc = "get_ret"
    /\ IsSome(ttl)
    /\ IsSome(data[th[t].key])
    /\ th[t].ret = None
    /\ Len(insert_order) = 2
    /\ Head(insert_order) = th[t].key
    /\ insert_order[2] # th[t].key

\* C12: on a cache with TTL d, the insert of put(k, v) at time t stores v with
\* timestamp t, whatever entry k had before; and as long as the clock is below
\* t + d, get(k) returns Some(v) unless a caller's put or remove has overwritten,
\* evicted or removed k: no sweep deletes the entry before t + d.
Rewrites(t, k) ==
  /\ th'[t] # th[t]
  /\ \/ th[t].pc = "put_ins" /\ th[t].key = k
     \/ th[t].pc = "put_evict" /\ th[t].oldest = Some(k)
     \/ th[t].pc = "remove_data" /\ th[t].key = k
OverwriteResetsTtl ==
  [][\A k \in Keys :
       /\ \A t \in Threads :
            (th[t].pc = "put_ins" /\ th[t].key = k /\ th'[t].pc = "put_push")
              => data'[k] = Some(Entry(th[t].val, now))
       /\ (/\ IsSome(ttl)
           /\ IsSome(data[k])
           /\ now' < Unwrap(data[k]).inst + Unwrap(ttl)
           /\ ~\E t \in Threads : Rewrites(t, k))
            => /\ data'[k] = data[k]
               /\ GetResult(data', ttl', k, now') = Some(Unwrap(data[k]).v)]_vars

\* C13: the sequence a keys() or values() call returns is the live keys (or
\* their values), ascending and without duplicates, of the store at one
\* moment of the call: of the store the call holds locked, judged at one clock
\* value that was reached by the time the call returns.
RECURSIVE Ascending(_)
Ascending(S) ==
  IF S = {} THEN <<>>
  ELSE LET k == CHOOSE x \in S : \A y \in S : x <= y
       IN <<k>> \o Ascending(S \ {k})
LiveKeys(d, tt, t) == {k \in Present(d) : Kept(Unwrap(d[k]), tt, t)}
ValuesOf(d, ks) == [i \in 1..Len(ks) |-> Unwrap(d[ks[i]]).v]
SnapshotAt(d, tt, t, keys) ==
  IF keys THEN Ascending(LiveKeys(d, tt, t))
          ELSE ValuesOf(d, Ascending(LiveKeys(d, tt, t)))
PointInTimeSnapshot ==
  [][\A t \in Threads :
       /\ (th[t].pc = "keys_iter" /\ th'[t].pc = "idle") =>
            \E tau \in 0..now : th[t].ret = SnapshotAt(data, ttl, tau, TRUE)
       /\ (th[t].pc = "values_iter" /\ th'[t].pc = "idle") =>
            \E tau \in 0..now : th[t].ret = SnapshotAt(data, ttl, tau, FALSE)]_vars

\* C15: a single caller's put(k, v) that finds the store at or above max_size
\* pops at most one ledger entry; when the popped key is not in the store, or
\* the ledger was empty, it deletes nothing from the store and goes on to the
\* insert; and whenever put(k, v) returns, the store holds v for k and k is the
\* last element of the ledger.
PutPcs == {"put_max", "put_len", "put_pop", "put_evict", "put_ins", "put_push"}
StaleVictim(t) ==
  th[t].oldest = None \/ data[Unwrap(th[t].oldest)] = None
Last(q) == q[Len(q)]
EvictionWithStaleFront ==
  [][\A t \in Threads :
       /\ (th[t].pc \in PutPcs /\ th'[t] # th[t]) =>
            /\ Len(insert_order') >= Len(insert_order) - 1
            /\ Len(insert_order') < Len(insert_order) => th[t].pc = "put_pop"
       /\ (th[t].pc = "put_evict" /\ th'[t] # th[t] /\ StaleVictim(t)) =>
            /\ data' = data
            /\ th'[t].pc = "put_ins"
       /\ (th[t].pc \in PutPcs /\ th'[t].pc = "idle") =>
            /\ IsSome(data'[th[t].key])
            /\ Unwrap(data'[th[t].key]).v = th[t].val
            /\ insert_order' # <<>>
            /\ Last(insert_order') = th[t].key]_vars

\* C15 witness: a put of a key that was not in the store has popped that very
\* key from the front of the ledger, evicted nothing, and inserted its key
\* into a store that is now above max_size.
EvictionWithStaleFrontWitness ==
  \E t \in Threads :
    /\ th[t].pc = "put_push"
    /\ IsSome(max_keys)
    /\ Unwrap(max_keys) > 0
    /\ th[t].pre = None
    /\ th[t].oldest = Some(th[t].key)
    /\ Len_data(data) > Unwrap(max_keys)
    /\ data[th[t].key] = Some(Entry(th[t].val, now))

\* C16: a step of a sweeper never adds a key to the store and never changes
\* an entry it keeps; the entries it deletes have an age >= the cache's ttl at
\* that moment; it never adds to or reorders the ledger, and the ledger
\* elements it drops are occurrences of keys that are not in the store.
SweeperOnlyDeletes ==
  [][(\E s \in Sweepers : Sweep(s)) =>
       /\ \A k \in Keys :
            \/ data'[k] = data[k]
            \/ /\ data'[k] = None
               /\ IsSome(ttl)
               /\ now - Unwrap(data[k]).inst >= Unwrap(ttl)
       /\ \/ insert_order' = insert_order
          \/ \E i \in 1..Len(insert_order) :
               /\ insert_order' = DropAt(insert_order, i)
               /\ data[insert_order[i]] = None]_vars

\* C19: a sweeper reads the stop flag only at the top of its loop, once per
\* cycle: it exits only from the loop test and only when the flag is raised,
\* a test that finds the flag raised exits, and a sweep cycle (delete pass,
\* reconcile pass, sleep) begins only from a test that found the flag down.
\* So once the flag is raised a sweeper finishes at most the one cycle it had
\* already been let into, and starts no other.
BoundedCancellation ==
  [][\A s \in Sweepers :
       /\ (sw'[s].pc = "exited" /\ sw[s].pc # "exited")
            => (sw[s].pc = "check" /\ stop)
       /\ (sw[s].pc = "check" /\ sw'[s] # sw[s] /\ stop)
            => sw'[s].pc = "exited"
       /\ (sw'[s].pc = "lock_data" /\ sw[s].pc # "lock_data")
            => (sw[s].pc = "check" /\ ~stop)
       /\ (sw'[s].pc = "check" /\ sw[s].pc # "check")
            => sw[s].pc \in {"unborn", "sleep"}]_vars

\* C19 witness: the flag was raised after a sweeper's loop test had found it
\* down, and that sweeper is about to run its one further cycle.
BoundedCancellationWitness ==
  /\ stop
  /\ phase = "dropping"
  /\ \E s \in Sweepers : sw[s].pc = "lock_data"

\* C20: under every interleaving of put, remove and sweeper steps, whenever
\* no put or remove is in progress every key in the store occurs at least
\* once in the ledger.
StoredKeysEvictable ==
  Quiescent => \A k \in Present(data) : k \in Range(insert_order)

\* C17: on a cache with a TTL whose sweeper runs, if from some point on no
\* put or remove is in progress, then from some point on the store holds no
\* entry of age >= ttl and every key in the ledger is in the store.
WritersIdle ==
  \A t \in Threads : th[t].pc \notin PutPcs \cup {"remove_data", "remove_order"}
Reconciled ==
  /\ \A k \in Present(data) : now - Unwrap(data[k]).inst < Unwrap(ttl)
  /\ \A k \in Range(insert_order) : k \in Present(data)
EventualReconciliation ==
  <>[](IsSome(ttl) /\ ~stop /\ WritersIdle) => <>[](IsSome(ttl) /\ Reconciled)

\* C17 witness: with no put or remove in progress, the delete pass has left
\* no expired entry and the reconcile pass is at a ledger entry whose key is
\* not in the store, which it drops.
EventualReconciliationWitness ==
  /\ IsSome(ttl)
  /\ WritersIdle
  /\ \A k \in Present(data) : now - Unwrap(data[k]).inst < Unwrap(ttl)
  /\ \E s \in Sweepers :
       /\ sw[s].pc = "reconcile"
       /\ sw[s].cur <= Len(insert_order)
       /\ data[insert_order[sw[s].cur]] = None

\* C14: with every thread calling every method while the sweeper runs, no
\* thread or sweeper waits for a lock it holds itself and no set of them
\* wait for one another in a cycle (a waiting writer counted as blocking new
\* readers, as a writer-preferring RwLock does); a call in progress is
\* blocked exactly by the holders of the lock it asks for; and once no new
\* call is started, every call in progress returns.
Procs == Threads \cup Sweepers
Pc(p) == IF p \in Threads THEN th[p].pc ELSE sw[p].pc
WantsWrite(p) ==
  \/ Pc(p) \in {"put_ins", "remove_data", "lock_data"}
  \/ Pc(p) = "put_evict" /\ IsSome(th[p].oldest)
WantsRead(p) ==
  \/ Pc(p) \in {"put_len", "get_lock", "exists_lock", "keys_lock", "values_lock"}
  \/ Pc(p) = "reconcile" /\ sw[p].cur <= Len(insert_order)
WantsOrder(p) == Pc(p) \in {"put_pop", "put_push", "remove_order", "lock_order"}
WantsMax(p) == Pc(p) = "put_max"
\* the holders of the lock p asks for
HeldBy(p) ==
  (IF WantsWrite(p) THEN {data_w} \cup data_r ELSE {})
  \cup (IF WantsRead(p) THEN {data_w} ELSE {})
  \cup (IF WantsOrder(p) THEN {order_w} ELSE {})
  \cup (IF WantsMax(p) THEN {max_lock} ELSE {})
Blockers(p) == HeldBy(p) \ {Nobody}
\* the writers waiting for `data`, which a reader may have to let pass
WaitingWriters == {q \in Procs : WantsWrite(q) /\ Blockers(q) # {}}
WaitsFor(p) ==
  Blockers(p) \cup (IF WantsRead(p) THEN WaitingWriters \ {p} ELSE {})
InCall(p) ==
  IF p \in Threads THEN th[p].pc # "idle" ELSE sw[p].pc \notin {"unborn", "exited"}
CanStep(p) == IF p \in Threads THEN ENABLED Step(p) ELSE ENABLED Sweep(p)
NoWaitCycle ==
  /\ \A p \in Procs : p \notin WaitsFor(p)
  /\ \A C \in SUBSET Procs :
       C # {} => \E p \in C : WaitsFor(p) \cap C = {}
  /\ \A p \in Procs : InCall(p) => (CanStep(p) <=> Blockers(p) = {})
CallStarts == \E t \in Threads : th[t].pc = "idle" /\ th'[t].pc # "idle"
RanAlone == hist # <<>> /\ hist # Tainted
OvershootIsTransient ==
  (IsSome(max_keys) /\ Quiescent /\ RanAlone) =>
    Len_data(data) <= Unwrap(max_keys)
====
